---- MODULE Spec2Model ----
(***************************************************************************)
(* A model of the Monalisten client (src/src/monalisten/_core.py): the     *)
(* per-envelope pipeline of Monalisten._handle_event, the authenticator    *)
(* _passes_auth, the error reporter _raise, hook registration and          *)
(* dispatch_hooks (asyncio.gather over the hooks of one batch).            *)
(***************************************************************************)
EXTENDS Naturals, Sequences, FiniteSets, TLC

(***************************************************************************)
(* Bounds of the model.                                                    *)
(***************************************************************************)
\* registrations made on one client
MaxRegs == 2
\* envelopes pulled from the stream by one listen()
MaxEnvelopes == 2
\* connection requests made by one aiter_sse_retrying
MaxConnects == 3
\* events yielded by one aiter_sse_retrying
MaxSse == 3
MaxAttempts == 12

(***************************************************************************)
(* Values.                                                                 *)
(***************************************************************************)
\* Python's None
None == "<None>"

EVENT_HEADER == "x-github-event"
SIG_HEADER == "x-hub-signature-256"

\* AuthIssue(Enum)
MISSING == "missing"
UNEXPECTED == "unexpected"
MISMATCH == "mismatch"

\* the messages _handle_event passes to _raise
MsgNoHeader == "received data is missing the x-github-event header"
MsgNoBody == "received data doesn't contain a body"
MsgNoParse == "the received payload could not be parsed as an event"

\* token argument of Monalisten(source, token=...): None, the empty string, a secret
Tokens == {None, "", "foobar"}
\* keys a sender may sign with
Keys == {"foobar", "wrong"}

\* event names carried by envelopes, and the hook triggers of Monalisten.on
EventNames == {"star", "push"}
Triggers == {"star", "*"}
MetaEventNames == {"ready", "auth_issue", "error"}
\* the names registration accepts, and names a caller may pass that it does not
VALID_EVENT_NAMES == EventNames
VALID_META_EVENT_NAMES == MetaEventNames
InvalidEventNames == {"stars"}
InvalidMetaEventNames == {"connect"}
\* actions of the star event
Actions == {"created", "deleted"}
\* the action sub-lists of a HookNamespace a hook is registered to in the model
PathNames == {"created"}

\* body objects: the empty object, one that fails validation, one per action
EmptyBody == "{}"
BadBody == "{foo:bar}"
Bodies == {EmptyBody, BadBody} \cup Actions

\* user hooks, told apart by what their coroutine does when it runs:
\*   ok     returns without suspending
\*   slow   suspends once (awaits I/O), then returns
\*   raise  raises an ordinary Exception without suspending
\*   fatal  raises asyncio.CancelledError without suspending
Hooks == {"ok", "slow", "raise", "fatal"}

\* githubkit.webhooks.sign: the signature of body under key
sign(key, body) == "sha256=" \o key \o "/" \o body

\* githubkit.webhooks.verify(token, body, signature)
verify(tok, body, signature) == signature = sign(tok, body)

\* Python truthiness of the values an envelope carries
Falsy(v) == v \in {None, "", EmptyBody}

\* dict.get(key)
Get(d, k) == IF k \in DOMAIN d THEN d[k] ELSE None

(***************************************************************************)
(* Envelopes: the JSON object of one SSE data field, a mapping from the    *)
(* sender's header spelling to a value.                                    *)
(***************************************************************************)
RawKeys ==
  {"X-GitHub-Event", "x-github-event", "X-Hub-Signature-256", "x-hub-signature-256",
   "body", "foo"}

\* str.casefold on the keys that occur
casefold(k) ==
  CASE k = "X-GitHub-Event" -> "x-github-event"
    [] k = "X-Hub-Signature-256" -> "x-hub-signature-256"
    [] OTHER -> k

EvKey(titled) == IF titled THEN "X-GitHub-Event" ELSE "x-github-event"
SigKey(titled) == IF titled THEN "X-Hub-Signature-256" ELSE "x-hub-signature-256"

\* signatures a sender may attach: none, an empty one, one made over the
\* "created" body with either key
Signatures == {None, ""} \cup {sign(k, "created") : k \in Keys}

MkEnvelope(titled, ev, sig, body) ==
  LET dom == (IF ev = None THEN {} ELSE {EvKey(titled)})
             \cup (IF sig = None THEN {} ELSE {SigKey(titled)})
             \cup (IF body = None THEN {} ELSE {"body"})
  IN [k \in dom |->
        CASE k = EvKey(titled) -> ev
          [] k = SigKey(titled) -> sig
          [] OTHER -> body]

FooEnvelope == [k \in {"foo"} |-> "bar"]
EmptyEnvelope == [k \in {} |-> "bar"]

\* the envelopes a source sends: every combination of event header, signature
\* and body with lower-case header names, the same with the header names as
\* GitHub spells them for the deliveries of a created star, and {"foo": "bar"}
Envelopes ==
  {MkEnvelope(FALSE, ev, sig, body) :
     ev \in EventNames \cup {None}, sig \in Signatures, body \in Bodies \cup {None}}
  \cup {MkEnvelope(TRUE, "star", sig, "created") : sig \in Signatures}
  \cup {FooEnvelope}

\* the payload with the keys as the sender spelled them
keys_as_sent(event) == event

\* Monalisten._prepare_event_data
prepare_event_data(event) ==
  LET keys == {casefold(k) : k \in DOMAIN event}
  IN [k \in keys |-> event[CHOOSE x \in DOMAIN event : casefold(x) = k]]

\* githubkit.webhooks.parse_obj: succeeds on a body that validates
Parses(event_name, body) == body \in Actions
parse_obj(event_name, body) == [name |-> event_name, action |-> body]

(***************************************************************************)
(* State.                                                                  *)
(***************************************************************************)
VARIABLES
  token,       \* Monalisten._token
  hooks,       \* Monalisten._hooks: trigger -> list of hooks
  meta_hooks,  \* Monalisten._meta_hooks: meta event -> list of hooks
  paths,       \* HookNamespace._paths: action -> list of hooks
  nregs,       \* registrations made so far
  rejected,    \* the last registration call that raised, and what it raised
  pc,          \* where listen() is: "created", "dispatch", "stream", "returned", "raised"
  dkind,       \* which dispatch_hooks call listen() is suspended in
  tasks,       \* the tasks asyncio.gather made for that call
  outcome,     \* the exception set on gather's future, NoExc while it has none
  event_data,  \* the payload of the envelope being handled
  auth,        \* what _passes_auth decided for it
  reports,     \* the dispatch_hooks calls made for it
  nenv,        \* envelopes pulled so far
  exc,         \* the exception that left listen()
  sse_pc,      \* where aiter_sse_retrying is: "start", "connected", "sleeping",
               \* "done", "raised"
  attempt,     \* its loop variable
  last_event_id,  \* its local last_event_id
  retry_delay, \* its local retry_delay, in seconds
  headers,     \* the headers of its latest connection request
  stream_id,   \* the last event id the decoder of that connection has read
  nconn,       \* connection requests it has made
  yielded,     \* the events it has yielded to its consumer
  slept,       \* the sleeps it has made
  sse_exc      \* the exception that left it

vars ==
  <<token, hooks, meta_hooks, paths, nregs, rejected, pc, dkind, tasks, outcome,
    event_data, auth, reports, nenv, exc, sse_pc, attempt, last_event_id, retry_delay,
    headers, stream_id, nconn, yielded, slept, sse_exc>>

sseVars ==
  <<sse_pc, attempt, last_event_id, retry_delay, headers, stream_id, nconn, yielded, slept,
    sse_exc>>

NoExc == [type |-> "none", msg |-> ""]
KeyError == [type |-> "KeyError", msg |-> "body"]
CancelledError == [type |-> "CancelledError", msg |-> ""]
\* the exception a failing user hook raises
HookException(h) == [type |-> "Exception", msg |-> h]
MonalistenError(message) == [type |-> "MonalistenError", msg |-> message]
MonalistenSetupError(message) == [type |-> "MonalistenSetupError", msg |-> message]
MsgBareInternal ==
  "bare @Monalisten.internal is not allowed, please specify a concrete internal event"
\* a registration call and the exception it raised
Rejected(call, event, e) == [call |-> call, event |-> event, exc |-> e]
\* httpx.ConnectError, httpx.ReadError: the transport fails while connecting, while reading
ConnectError == [type |-> "ConnectError", msg |-> ""]
ReadError == [type |-> "ReadError", msg |-> ""]

\* hooks offered to each list
HooksFor(list) ==
  CASE list = "*" -> Hooks
    [] list = "star" -> {"ok", "raise"}
    [] list = "ready" -> {"ok", "slow", "raise"}
    [] list = "auth_issue" -> {"ok", "slow", "raise"}
    [] list = "error" -> {"ok", "raise"}
    [] OTHER -> {"ok"}

(***************************************************************************)
(* aiter_sse_retrying before its first step.                               *)
(***************************************************************************)
NoHeaders == [k \in {} |-> ""]

InitSse ==
  /\ sse_pc = "start"
  /\ attempt = 0
  /\ last_event_id = None
  /\ retry_delay = 0
  /\ headers = NoHeaders
  /\ stream_id = ""
  /\ nconn = 0
  /\ yielded = <<>>
  /\ slept = <<>>
  /\ sse_exc = NoExc

(***************************************************************************)
(* Monalisten.__init__                                                     *)
(***************************************************************************)
Init ==
  /\ token \in Tokens
  /\ hooks = [t \in Triggers |-> <<>>]
  /\ meta_hooks = [m \in MetaEventNames |-> <<>>]
  /\ paths = [a \in PathNames |-> <<>>]
  /\ nregs = 0
  /\ rejected = Rejected("none", None, NoExc)
  /\ pc = "created"
  /\ dkind = "none"
  /\ tasks = <<>>
  /\ outcome = NoExc
  /\ event_data = EmptyEnvelope
  /\ auth = "none"
  /\ reports = <<>>
  /\ nenv = 0
  /\ exc = NoExc
  /\ InitSse

(***************************************************************************)
(* Registration.                                                           *)
(***************************************************************************)
CanRegister == nregs < MaxRegs /\ pc \notin {"returned", "raised"}

listenVars == <<pc, dkind, tasks, outcome, event_data, auth, reports, nenv, exc>>

\* a registration that puts the hook in front of the earlier entries
InsertFirst(d, k, h) ==
  [x \in DOMAIN d \cup {k} |->
     IF x = k THEN <<h>> \o (IF k \in DOMAIN d THEN d[k] ELSE <<>>) ELSE d[x]]

\* d[k].append(h) on a defaultdict(list)
AppendTo(d, k, h) ==
  [x \in DOMAIN d \cup {k} |->
     IF x = k THEN Append(IF k \in DOMAIN d THEN d[k] ELSE <<>>, h) ELSE d[x]]

\* a registration that the dispatch of the event hooks in progress sees: the
\* hook joins the batch that is running
on_live(event, hook) ==
  /\ CanRegister
  /\ IF event \notin VALID_EVENT_NAMES /\ event # "*"
       THEN /\ rejected' = Rejected("on", event, MonalistenError("Invalid event name"))
            /\ UNCHANGED <<hooks, nregs, tasks>>
       ELSE /\ hooks' = AppendTo(hooks, event, hook)
            /\ nregs' = nregs + 1
            /\ tasks' = IF pc = "dispatch" /\ dkind = "event"
                          THEN Append(tasks, [hook |-> hook, st |-> "ready"])
                          ELSE tasks
            /\ UNCHANGED rejected
  /\ UNCHANGED <<token, meta_hooks, paths, pc, dkind, outcome, event_data, auth, reports,
                 nenv, exc, sseVars>>

\* Monalisten.on(event)(hook)
on(event, hook) ==
  /\ CanRegister
  /\ IF event \notin VALID_EVENT_NAMES /\ event # "*"
       THEN /\ rejected' = Rejected("on", event, MonalistenError("Invalid event name"))
            /\ UNCHANGED <<hooks, nregs>>
       ELSE /\ hooks' = AppendTo(hooks, event, hook)
            /\ nregs' = nregs + 1
            /\ UNCHANGED rejected
  /\ UNCHANGED <<token, meta_hooks, paths, listenVars, sseVars>>

\* Monalisten.on_internal(event)(hook)
on_internal(event, hook) ==
  /\ CanRegister
  /\ IF event \notin VALID_META_EVENT_NAMES
       THEN /\ rejected'
                 = Rejected("on_internal", event, MonalistenError("Invalid internal event name"))
            /\ UNCHANGED <<meta_hooks, nregs>>
       ELSE /\ meta_hooks' = [meta_hooks EXCEPT ![event] = Append(@, hook)]
            /\ nregs' = nregs + 1
            /\ UNCHANGED rejected
  /\ UNCHANGED <<token, hooks, paths, listenVars, sseVars>>

\* the registrar build_registrar(name) makes for a HookNamespace
registrar(name, hook) ==
  /\ CanRegister
  /\ paths' = [paths EXCEPT ![name] = Append(@, hook)]
  /\ nregs' = nregs + 1
  /\ UNCHANGED <<token, hooks, meta_hooks, rejected, listenVars, sseVars>>

\* InternalNamespace.__call__(hook): the bare internal namespace as a decorator
internal_call(hook) ==
  /\ CanRegister
  /\ rejected' = Rejected("internal", None, MonalistenSetupError(MsgBareInternal))
  /\ UNCHANGED <<token, hooks, meta_hooks, paths, nregs, listenVars, sseVars>>

(***************************************************************************)
(* The pipeline of one envelope, as the next thing listen() does: suspend  *)
(* in a dispatch_hooks call, raise, or go back to the stream.  calls are   *)
(* the dispatch_hooks calls made on the way; a call with no hooks awaits   *)
(* gather() of nothing, which is done at once.                             *)
(***************************************************************************)
Call(kind, hs, args) == [kind |-> kind, hs |-> hs, args |-> args]

DispatchPlan(kind, hs, args, calls, a) ==
  [k |-> "dispatch", kind |-> kind, hs |-> hs, exc |-> NoExc,
   calls |-> Append(calls, Call(kind, hs, args)), auth |-> a]
RaisePlan(e, calls, a) ==
  [k |-> "raise", kind |-> "none", hs |-> <<>>, exc |-> e, calls |-> calls, auth |-> a]
NextPlan(calls, a) ==
  [k |-> "next", kind |-> "none", hs |-> <<>>, exc |-> NoExc, calls |-> calls, auth |-> a]

\* an authenticator that takes only None for no token
passes_auth_unless_none(tok, ed) ==
  IF tok = None
    THEN [res |-> "pass", issue |-> IF SIG_HEADER \in DOMAIN ed THEN UNEXPECTED ELSE None]
  ELSE IF Falsy(Get(ed, SIG_HEADER))
    THEN [res |-> "fail", issue |-> MISSING]
  ELSE IF "body" \notin DOMAIN ed
    THEN [res |-> "KeyError", issue |-> None]
  ELSE IF verify(tok, ed["body"], ed[SIG_HEADER])
    THEN [res |-> "pass", issue |-> None]
  ELSE [res |-> "fail", issue |-> MISMATCH]

\* Monalisten._passes_auth: the result ("pass", "fail", or the KeyError of
\* event_data["body"]) and the issue it reports first
passes_auth(tok, ed) ==
  IF Falsy(tok)
    THEN [res |-> "pass", issue |-> IF SIG_HEADER \in DOMAIN ed THEN UNEXPECTED ELSE None]
  ELSE IF Falsy(Get(ed, SIG_HEADER))
    THEN [res |-> "fail", issue |-> MISSING]
  ELSE IF "body" \notin DOMAIN ed
    THEN [res |-> "KeyError", issue |-> None]
  ELSE IF verify(tok, ed["body"], ed[SIG_HEADER])
    THEN [res |-> "pass", issue |-> None]
  ELSE [res |-> "fail", issue |-> MISMATCH]

\* Monalisten._raise
raise_(ed, message, pydantic_errors, calls, a) ==
  IF meta_hooks["error"] # <<>>
    THEN DispatchPlan("error", meta_hooks["error"],
                      [event_data |-> ed, message |-> message,
                       pydantic_errors |-> pydantic_errors], calls, a)
    ELSE RaisePlan(MonalistenError(message), calls, a)

\* self._hooks.get(hook_kind, [])
hooks_get(hook_kind) == IF hook_kind \in DOMAIN hooks THEN hooks[hook_kind] ELSE <<>>

\* Monalisten._handle_event after _passes_auth returned True
after_auth(ed, calls, a) ==
  LET event_name == Get(ed, EVENT_HEADER)
      body == Get(ed, "body")
      hs == hooks_get(event_name) \o hooks_get("*")
  IN IF Falsy(event_name) THEN raise_(ed, MsgNoHeader, None, calls, a)
     ELSE IF Falsy(body) THEN raise_(ed, MsgNoBody, None, calls, a)
     ELSE IF ~Parses(event_name, body) THEN raise_(ed, MsgNoParse, "errors", calls, a)
     ELSE IF hs = <<>>
       THEN NextPlan(Append(calls, Call("event", hs, parse_obj(event_name, body))), a)
     ELSE DispatchPlan("event", hs, parse_obj(event_name, body), calls, a)

\* Monalisten._handle_event once _passes_auth has returned or raised
auth_done(ed, calls, a) ==
  CASE a = "KeyError" -> RaisePlan(KeyError, calls, a)
    [] a = "fail" -> NextPlan(calls, a)
    [] OTHER -> after_auth(ed, calls, a)

\* a report that starts the auth_issue hooks and does not await them
report_unawaited(issue_kind, ed, a) ==
  auth_done(ed, <<Call("auth_issue", meta_hooks["auth_issue"],
                       [issue_kind |-> issue_kind, event_data |-> ed])>>, a)

\* Monalisten._report_auth_issue
report_auth_issue(issue_kind, ed, a) ==
  LET args == [issue_kind |-> issue_kind, event_data |-> ed]
      hs == meta_hooks["auth_issue"]
  IN IF hs = <<>>
       THEN auth_done(ed, <<Call("auth_issue", hs, args)>>, a)
       ELSE DispatchPlan("auth_issue", hs, args, <<>>, a)

\* a _handle_event that does not return early on an empty payload
handle_empty_too(event) ==
  LET ed == prepare_event_data(event)
      a == passes_auth(token, ed)
  IN IF a.issue # None THEN report_auth_issue(a.issue, ed, a.res)
     ELSE auth_done(ed, <<>>, a.res)

\* Monalisten._handle_event
handle_event(event) ==
  LET ed == prepare_event_data(event)
      a == passes_auth(token, ed)
  IN IF DOMAIN ed = {} THEN NextPlan(<<>>, "none")
     ELSE IF a.issue # None THEN report_auth_issue(a.issue, ed, a.res)
     ELSE auth_done(ed, <<>>, a.res)

\* asyncio.gather(*(h(*args) for h in hooks)): one task per hook
Launch(hs) == [i \in 1..Len(hs) |-> [hook |-> hs[i], st |-> "ready"]]

\* listen() does what the plan says
Exec(plan) ==
  /\ pc' = CASE plan.k = "dispatch" -> "dispatch"
             [] plan.k = "raise" -> "raised"
             [] OTHER -> "stream"
  /\ dkind' = plan.kind
  /\ tasks' = Launch(plan.hs)
  /\ outcome' = NoExc
  /\ auth' = plan.auth
  /\ reports' = plan.calls
  /\ exc' = plan.exc

regVars == <<token, hooks, meta_hooks, paths, nregs, rejected>>

(***************************************************************************)
(* Monalisten.listen                                                       *)
(***************************************************************************)
\* listen() up to the await of dispatch_hooks(self._meta_hooks.get("ready"))
Listen ==
  /\ pc = "created"
  /\ Exec(IF meta_hooks["ready"] = <<>>
            THEN NextPlan(<<Call("ready", <<>>, <<>>)>>, "none")
            ELSE DispatchPlan("ready", meta_hooks["ready"], <<>>, <<>>, "none"))
  /\ UNCHANGED <<regVars, event_data, nenv, sseVars>>

\* async for event in sse.aiter_sse(): await self._handle_event(event)
HandleEvent(event) ==
  /\ pc = "stream"
  /\ nenv < MaxEnvelopes
  /\ nenv' = nenv + 1
  /\ event_data' = prepare_event_data(event)
  /\ Exec(handle_event(event))
  /\ UNCHANGED <<regVars, sseVars>>

\* the stream ends: listen() returns
EndOfStream ==
  /\ pc = "stream"
  /\ pc' = "returned"
  /\ UNCHANGED <<regVars, dkind, tasks, outcome, event_data, auth, reports, nenv, exc,
                 sseVars>>

(***************************************************************************)
(* dispatch_hooks: the event loop runs the tasks of the batch.             *)
(***************************************************************************)
\* what the first run of a hook's coroutine ends in
FirstStep(h) ==
  CASE h = "ok" -> "done"
    [] h = "slow" -> "suspended"
    [] h = "raise" -> "failed"
    [] OTHER -> "cancelled"

\* gather's _done_callback: the first failure of a child becomes the result
Gathered(o, h, st) ==
  IF o # NoExc THEN o
  ELSE IF st = "failed" THEN HookException(h)
  ELSE IF st = "cancelled" THEN CancelledError
  ELSE o

\* the loop runs task i: tasks start in the order gather scheduled them, a
\* suspended one finishes when its I/O completes
RunTask(i) ==
  /\ pc \in {"dispatch", "raised"}
  /\ i \in 1..Len(tasks)
  /\ \/ /\ tasks[i].st = "ready"
        /\ \A j \in 1..(i - 1) : tasks[j].st # "ready"
        /\ tasks' = [tasks EXCEPT ![i].st = FirstStep(tasks[i].hook)]
        /\ outcome' = Gathered(outcome, tasks[i].hook, FirstStep(tasks[i].hook))
     \/ /\ tasks[i].st = "suspended"
        /\ tasks' = [tasks EXCEPT ![i].st = "done"]
        /\ outcome' = outcome
  /\ UNCHANGED <<regVars, pc, dkind, event_data, auth, reports, nenv, exc, sseVars>>

\* a dispatch that starts the tasks and does not wait for them to finish
GatherNotAwaited == \A i \in 1..Len(tasks) : tasks[i].st # "ready"

\* a dispatch that returns with the first task to finish
GatherFirstCompleted ==
  /\ \A i \in 1..Len(tasks) : tasks[i].st # "ready"
  /\ \/ outcome # NoExc
     \/ \E i \in 1..Len(tasks) : tasks[i].st = "done"

\* gather's future is done: with the first failure, or when every task is done
GatherDone ==
  /\ \A i \in 1..Len(tasks) : tasks[i].st # "ready"
  /\ \/ outcome # NoExc
     \/ \A i \in 1..Len(tasks) : tasks[i].st = "done"

\* listen() resumes from await dispatch_hooks(...)
Resume ==
  /\ pc = "dispatch"
  /\ GatherDone
  /\ IF outcome # NoExc
       THEN /\ pc' = "raised"
            /\ exc' = outcome
            /\ UNCHANGED <<dkind, tasks, outcome, auth, reports>>
     ELSE IF dkind = "auth_issue"
       THEN Exec(auth_done(event_data, reports, auth))
     ELSE /\ pc' = "stream"
          /\ UNCHANGED <<dkind, tasks, outcome, auth, reports, exc>>
  /\ UNCHANGED <<regVars, event_data, nenv, sseVars>>

\* the longest batch: every registration, and the error hook of InitError
MaxBatch == MaxRegs + 1

Next ==
  \/ \E t \in Triggers : \E h \in HooksFor(t) : on(t, h)
  \/ \E m \in MetaEventNames : \E h \in HooksFor(m) : on_internal(m, h)
  \/ \E a \in PathNames : \E h \in HooksFor(a) : registrar(a, h)
  \/ Listen
  \/ \E e \in Envelopes : HandleEvent(e)
  \/ EndOfStream
  \/ \E i \in 1..MaxBatch : RunTask(i)
  \/ Resume

Spec == Init /\ [][Next]_vars

\* the client once an internal.error hook that completes normally is registered
InitError ==
  \E tok \in Tokens :
    /\ token = tok
    /\ hooks = [t \in Triggers |-> <<>>]
    /\ meta_hooks = [m \in MetaEventNames |-> IF m = "error" THEN <<"ok">> ELSE <<>>]
    /\ paths = [a \in PathNames |-> <<>>]
    /\ nregs = 0
    /\ rejected = Rejected("none", None, NoExc)
    /\ pc = "created"
    /\ dkind = "none"
    /\ tasks = <<>>
    /\ outcome = NoExc
    /\ event_data = EmptyEnvelope
    /\ auth = "none"
    /\ reports = <<>>
    /\ nenv = 0
    /\ exc = NoExc
    /\ InitSse

SpecError == InitError /\ [][Next]_vars

(***************************************************************************)
(* Transport failures in listen(): nothing in listen() catches them.       *)
(***************************************************************************)
\* entering aconnect_sse(client, "GET", self._source) fails: no hook has run
RaiseConnectError ==
  /\ pc = "created"
  /\ pc' = "raised"
  /\ exc' = ConnectError
  /\ UNCHANGED <<regVars, dkind, tasks, outcome, event_data, auth, reports, nenv, sseVars>>

\* sse.aiter_sse() fails while listen() waits for the next envelope
RaiseReadError ==
  /\ pc = "stream"
  /\ pc' = "raised"
  /\ exc' = ReadError
  /\ UNCHANGED <<regVars, dkind, tasks, outcome, event_data, auth, reports, nenv, sseVars>>

(***************************************************************************)
(* listen() over a transport that may fail, on a client whose              *)
(* registrations are all ready hooks.                                      *)
(***************************************************************************)
NextReady ==
  \/ \E h \in HooksFor("ready") : on_internal("ready", h)
  \/ RaiseConnectError
  \/ Listen
  \/ \E e \in Envelopes : HandleEvent(e)
  \/ RaiseReadError
  \/ EndOfStream
  \/ \E i \in 1..MaxBatch : RunTask(i)
  \/ Resume
SpecReady == Init /\ [][NextReady]_vars

(***************************************************************************)
(* listen() on a client whose registrations are hooks for every event,     *)
(* auth_issue hooks, and error hooks that complete normally.               *)
(***************************************************************************)
NextSerial ==
  \/ \E h \in HooksFor("auth_issue") : on("*", h)
  \/ \E h \in HooksFor("auth_issue") : on_internal("auth_issue", h)
  \/ \E h \in HooksFor("created") : on_internal("error", h)
  \/ Listen
  \/ \E e \in Envelopes : HandleEvent(e)
  \/ EndOfStream
  \/ \E i \in 1..MaxBatch : RunTask(i)
  \/ Resume
SpecSerial == Init /\ [][NextSerial]_vars

\* the same client when listen() is called, the event loop runs every task
\* that can run and resumes listen() when its dispatch is done, and the
\* source closes the stream once it has no more envelopes
Fairness ==
  /\ WF_vars(Listen)
  /\ WF_vars(\E i \in 1..MaxBatch : RunTask(i))
  /\ WF_vars(Resume)
  /\ WF_vars(EndOfStream)
SpecSerialFair == SpecSerial /\ Fairness

(***************************************************************************)
(* listen() on a stream of star deliveries, each sent with the header keys *)
(* in lower case or as GitHub spells them.                                 *)
(***************************************************************************)
CasedEnvelopes ==
  {MkEnvelope(titled, "star", sig, "created") : titled \in BOOLEAN, sig \in Signatures}

NextCased ==
  \/ \E t \in Triggers : \E h \in HooksFor(t) : on(t, h)
  \/ \E m \in MetaEventNames : \E h \in HooksFor(m) : on_internal(m, h)
  \/ Listen
  \/ \E e \in CasedEnvelopes : HandleEvent(e)
  \/ EndOfStream
  \/ \E i \in 1..MaxBatch : RunTask(i)
  \/ Resume
SpecCased == Init /\ [][NextCased]_vars

(***************************************************************************)
(* listen() while the caller and the hooks go on registering: deliveries   *)
(* of a created star with or without the event header, unsigned or signed  *)
(* with the key "foobar".                                                  *)
(***************************************************************************)
MidStreamEnvelopes ==
  {MkEnvelope(FALSE, ev, sig, "created") :
     ev \in {"star", None}, sig \in {None, sign("foobar", "created")}}

NextMidStream ==
  \/ \E t \in Triggers : \E h \in HooksFor("auth_issue") : on(t, h)
  \/ \E m \in MetaEventNames : \E h \in HooksFor(m) : on_internal(m, h)
  \/ \E a \in PathNames : \E h \in HooksFor(a) : registrar(a, h)
  \/ Listen
  \/ \E e \in MidStreamEnvelopes : HandleEvent(e)
  \/ EndOfStream
  \/ \E i \in 1..MaxBatch : RunTask(i)
  \/ Resume
SpecMidStream == Init /\ [][NextMidStream]_vars

(***************************************************************************)
(* A client whose caller also makes invalid registration calls, before and *)
(* while listen() streams star deliveries.                                 *)
(***************************************************************************)
NextSetup ==
  \/ \E t \in Triggers \cup InvalidEventNames : \E h \in HooksFor("created") : on(t, h)
  \/ \E m \in MetaEventNames \cup InvalidMetaEventNames :
       \E h \in HooksFor("created") : on_internal(m, h)
  \/ \E h \in HooksFor("created") : internal_call(h)
  \/ Listen
  \/ \E e \in CasedEnvelopes : HandleEvent(e)
  \/ EndOfStream
  \/ \E i \in 1..MaxBatch : RunTask(i)
  \/ Resume
SpecSetup == Init /\ [][NextSetup]_vars

(***************************************************************************)
(* aiter_sse_retrying (src/src/monalisten/_sse.py): the reconnect loop,    *)
(* driven by a consumer that takes every event it yields.                  *)
(***************************************************************************)
\* the cap of the backoff exponent, and milliseconds per second
ExponentCap == 10
MsPerSecond == 1000

\* the events a source sends: each with or without an id field, with or
\* without a retry field (in milliseconds)
SseIds == {"1", "2"}
SseRetries == {0, 3000}
SentEvents ==
  {[k \in {"data"} |-> "{}"]}
    \cup {[id |-> i] : i \in SseIds}
    \cup {[retry |-> r] : r \in SseRetries}
    \cup [id : SseIds, retry : SseRetries]

\* the ServerSentEvent stream.aiter_sse() makes of a sent event: its id is the
\* last id read on the connection ("" when none has been), its retry is None
\* (here: no field) when the event has no retry field
decode(sent, last_id) ==
  LET id == IF "id" \in DOMAIN sent THEN sent.id ELSE last_id
  IN IF "retry" \in DOMAIN sent THEN [id |-> id, retry |-> sent.retry] ELSE [id |-> id]

\* sse.retry or 0
retry_or_0(sse) == IF "retry" \in DOMAIN sse THEN sse.retry ELSE 0

\* an exponent that is not capped
Uncapped(a, b) == a

Min(a, b) == IF a <= b THEN a ELSE b

sseLocals == <<attempt, last_event_id, retry_delay>>

\* headers = {"Last-Event-ID": last_event_id} if last_event_id else {}, and
\* the request aconnect_sse makes with them
ConnectWithin(limit) ==
  /\ sse_pc = "start"
  /\ nconn < limit
  /\ headers' = IF Falsy(last_event_id)
                  THEN NoHeaders
                  ELSE [k \in {"Last-Event-ID"} |-> last_event_id]
  /\ stream_id' = ""
  /\ nconn' = nconn + 1
  /\ sse_pc' = "connected"
  /\ UNCHANGED <<sseLocals, yielded, slept, sse_exc, regVars, listenVars>>

Connect == ConnectWithin(MaxConnects)

\* one turn of async for sse in stream.aiter_sse(), for the event the source sent
YieldSse(sent) ==
  LET sse == decode(sent, stream_id)
  IN /\ sse_pc = "connected"
     /\ Len(yielded) < MaxSse
     /\ stream_id' = sse.id
     /\ last_event_id' = sse.id
     /\ retry_delay' = retry_or_0(sse) \div MsPerSecond
     /\ yielded' = Append(yielded, sse)
     /\ UNCHANGED <<sse_pc, attempt, headers, nconn, slept, sse_exc, regVars, listenVars>>

\* the stream ends: break
StreamEnds ==
  /\ sse_pc = "connected"
  /\ sse_pc' = "done"
  /\ UNCHANGED <<sseLocals, headers, stream_id, nconn, yielded, slept, sse_exc, regVars,
                 listenVars>>

\* a loop that gives up: the read error of the last attempt allowed leaves the
\* generator instead of being slept on
CatchReadErrorLimited ==
  /\ sse_pc = "connected"
  /\ IF attempt + 1 < MaxConnects
       THEN /\ slept' = Append(slept, [retry_delay |-> retry_delay,
                                        numerator |-> Min(attempt, ExponentCap)])
            /\ sse_pc' = "sleeping"
            /\ UNCHANGED sse_exc
       ELSE /\ sse_pc' = "raised"
            /\ sse_exc' = ReadError
            /\ UNCHANGED slept
  /\ UNCHANGED <<sseLocals, headers, stream_id, nconn, yielded, regVars, listenVars>>

\* except httpx.ReadError: the sleep of retry_delay + 2 ** (min(attempt, 10) / e),
\* kept as the delay and the numerator of the exponent
CatchReadError ==
  /\ sse_pc = "connected"
  /\ slept' = Append(slept, [retry_delay |-> retry_delay,
                              numerator |-> Min(attempt, ExponentCap)])
  /\ sse_pc' = "sleeping"
  /\ UNCHANGED <<sseLocals, headers, stream_id, nconn, yielded, sse_exc, regVars,
                 listenVars>>

\* the sleep is over: the next turn of for attempt in count()
NextAttempt ==
  /\ sse_pc = "sleeping"
  /\ attempt' = attempt + 1
  /\ sse_pc' = "start"
  /\ UNCHANGED <<last_event_id, retry_delay, headers, stream_id, nconn, yielded, slept,
                 sse_exc, regVars, listenVars>>

\* any other exception of the connection leaves the generator
Propagate ==
  /\ sse_pc = "connected"
  /\ sse_pc' = "raised"
  /\ sse_exc' = ConnectError
  /\ UNCHANGED <<sseLocals, headers, stream_id, nconn, yielded, slept, regVars,
                 listenVars>>

NextSse ==
  \/ Connect
  \/ \E sent \in SentEvents : YieldSse(sent)
  \/ StreamEnds
  \/ CatchReadError
  \/ NextAttempt
  \/ Propagate
SpecSse == Init /\ [][NextSse]_vars

\* the reconnect loop over enough attempts to pass the cap of the exponent, with
\* a source that sends an event with a retry hint or one without
BackoffEvents == {[k \in {"data"} |-> "{}"], [retry |-> 3000]}
NextBackoff ==
  \/ ConnectWithin(MaxAttempts)
  \/ \E sent \in BackoffEvents : YieldSse(sent)
  \/ StreamEnds
  \/ CatchReadError
  \/ NextAttempt
  \/ Propagate
SpecBackoff == Init /\ [][NextBackoff]_vars

(***************************************************************************)
(* Observations on the envelope being handled.                             *)
(***************************************************************************)
IsKind(kind, c) == c.kind = kind
IsAuthCall(c) == IsKind("auth_issue", c)
IsErrorCall(c) == IsKind("error", c)
IsEventCall(c) == IsKind("event", c)

AuthCalls == SelectSeq(reports, IsAuthCall)
ErrorCalls == SelectSeq(reports, IsErrorCall)
EventCalls == SelectSeq(reports, IsEventCall)
EventCallsOf(r) == SelectSeq(r, IsEventCall)

\* the kinds of the auth issues reported for the envelope, in order
IssueKinds == [i \in 1..Len(AuthCalls) |-> AuthCalls[i].args.issue_kind]

\* a non-empty envelope has been pulled and handed to _handle_event
Handled == nenv > 0 /\ DOMAIN event_data # {}

SigAbsent == SIG_HEADER \notin DOMAIN event_data
SigPresent == ~Falsy(Get(event_data, SIG_HEADER))
SigVerifies ==
  /\ SigPresent
  /\ "body" \in DOMAIN event_data
  /\ verify(token, event_data["body"], event_data[SIG_HEADER])

\* no hook of the current batch has raised
NoHookFailed == \A i \in 1..Len(tasks) : tasks[i].st \notin {"failed", "cancelled"}

Count(h, seq) == Cardinality({i \in 1..Len(seq) : seq[i] = h})

(***************************************************************************)
(* C1: for every non-empty payload the authenticator follows the truth     *)
(* table: no token and no signature pass without issue; no token and a     *)
(* signature pass with one UNEXPECTED; token and no signature fail with    *)
(* one MISSING; token and a verifying signature pass without issue; token  *)
(* and a signature that does not verify fail with one MISMATCH.            *)
(***************************************************************************)
C1_AuthTruthTable ==
  Handled =>
    /\ (Falsy(token) /\ SigAbsent) => (auth = "pass" /\ IssueKinds = <<>>)
    /\ (Falsy(token) /\ SigPresent) => (auth = "pass" /\ IssueKinds = <<UNEXPECTED>>)
    /\ (~Falsy(token) /\ SigAbsent) => (auth = "fail" /\ IssueKinds = <<MISSING>>)
    /\ (~Falsy(token) /\ SigPresent /\ SigVerifies)
         => (auth = "pass" /\ IssueKinds = <<>>)
    /\ (~Falsy(token) /\ SigPresent /\ ~SigVerifies)
         => (auth = "fail" /\ IssueKinds = <<MISMATCH>>)

(***************************************************************************)
(* C2: with a token configured, an envelope whose signature is absent or   *)
(* does not verify reaches no event hook and is skipped: listen() does not *)
(* stop on it (no hook having failed) and goes on with the stream.         *)
(***************************************************************************)
C2_RejectedEnvelopeSkipped ==
  (Handled /\ ~Falsy(token) /\ ~SigVerifies /\ NoHookFailed)
    => (EventCalls = <<>> /\ pc # "raised")

(***************************************************************************)
(* C3: when the hooks of a parsed delivery of event N with action A are    *)
(* launched, each hook is launched as many times as it is registered in    *)
(* event.any, event[N] and event[N][A] together.                           *)
(***************************************************************************)
Registrations(h, N, A) ==
  Count(h, hooks_get("*")) + Count(h, hooks_get(N))
    + (IF N = "star" /\ A \in PathNames THEN Count(h, paths[A]) ELSE 0)

C3_OncePerRegistration ==
  [][(Len(EventCallsOf(reports')) = 1 /\ (nenv' # nenv \/ EventCalls = <<>>))
       => LET c == EventCallsOf(reports')[1]
          IN \A h \in Hooks :
               Count(h, c.hs) = Registrations(h, c.args.name, c.args.action)]_vars

(***************************************************************************)
(* C4: a non-empty envelope that passed authentication and lacks the event *)
(* header, or lacks a body, or has a body that does not parse, produces    *)
(* exactly one preprocessing error with the message of its case and no     *)
(* event dispatch; the Error handed to the error hooks carries event_name  *)
(* (null without the header, else the header value) and the payload.       *)
(***************************************************************************)
PastAuth == Handled /\ auth = "pass" /\ dkind # "auth_issue"

Malformed ==
  \/ Falsy(Get(event_data, EVENT_HEADER))
  \/ Falsy(Get(event_data, "body"))
  \/ ~Parses(event_data[EVENT_HEADER], event_data["body"])

MalformedMsg ==
  IF Falsy(Get(event_data, EVENT_HEADER)) THEN MsgNoHeader
  ELSE IF Falsy(Get(event_data, "body")) THEN MsgNoBody
  ELSE MsgNoParse

C4_PreprocessingErrors ==
  (PastAuth /\ Malformed) =>
    /\ EventCalls = <<>>
    /\ \/ /\ ErrorCalls = <<>>
          /\ pc = "raised"
          /\ exc.msg = MalformedMsg
       \/ /\ Len(ErrorCalls) = 1
          /\ ErrorCalls[1].args.message = MalformedMsg
          /\ ErrorCalls[1].args.event_data = event_data
          /\ "event_name" \in DOMAIN ErrorCalls[1].args
          /\ ErrorCalls[1].args.event_name = Get(event_data, EVENT_HEADER)

(***************************************************************************)
(* C5: a preprocessing error leaves listen() only when no error hook is    *)
(* registered, and then as a preprocessing error with the message; with    *)
(* error hooks registered each is invoked once with the Error and listen() *)
(* goes on.                                                                *)
(***************************************************************************)
MonalistenPreprocessingError(message) ==
  [type |-> "MonalistenPreprocessingError", msg |-> message]

C5_SurfacedOnlyWithoutErrorHook ==
  (PastAuth /\ Malformed) =>
    \/ /\ ErrorCalls = <<>>
       /\ pc = "raised"
       /\ exc = MonalistenPreprocessingError(MalformedMsg)
    \/ /\ Len(ErrorCalls) = 1
       /\ ErrorCalls[1].hs # <<>>
       /\ "exc" \in DOMAIN ErrorCalls[1].args
       /\ NoHookFailed => pc # "raised"

(***************************************************************************)
(* C6: when an event hook raises an ordinary exception, the exception is   *)
(* wrapped as an Error and dispatched to the error hooks; it leaves        *)
(* listen() only if no error hook is registered.                           *)
(***************************************************************************)
\* listen() leaves the dispatch_hooks call of this kind with an ordinary
\* exception of a hook as gather's result
LeavesFailed(kind) ==
  /\ pc = "dispatch"
  /\ dkind = kind
  /\ outcome.type = "Exception"
  /\ (pc' # pc \/ dkind' # dkind)

\* the next thing listen() does is dispatch an Error for event_name to the error hooks
RoutedToErrorHooks(event_name) ==
  /\ pc' = "dispatch"
  /\ dkind' = "error"
  /\ "event_name" \in DOMAIN reports'[Len(reports')].args
  /\ reports'[Len(reports')].args.event_name = event_name

C6_EventHookErrorRouted ==
  [][LeavesFailed("event")
       => IF meta_hooks["error"] # <<>>
            THEN RoutedToErrorHooks(event_data[EVENT_HEADER])
            ELSE pc' = "raised" /\ exc' = outcome]_vars

(***************************************************************************)
(* C7: a dispatch does not return or raise until every hook of its batch   *)
(* has completed: whenever listen() is outside a dispatch, no task of the  *)
(* last batch is still running.                                            *)
(***************************************************************************)
C7_BatchCompletes ==
  pc \in {"stream", "returned", "raised"}
    => \A i \in 1..Len(tasks) : tasks[i].st \in {"done", "failed", "cancelled"}

(***************************************************************************)
(* C8: with an error hook registered, the failure of a ready hook is       *)
(* dispatched to the error hooks as an Error with event_name "ready", and  *)
(* the failure of an auth_issue hook as one with event_name "auth_issue".  *)
(***************************************************************************)
C8_MetaHookErrorRouted ==
  [][\A kind \in {"ready", "auth_issue"} :
       (LeavesFailed(kind) /\ meta_hooks["error"] # <<>>)
         => RoutedToErrorHooks(kind)]_vars

(***************************************************************************)
(* C9: a fatal signal raised in a hook is never handed to the error hooks  *)
(* and always leaves the dispatch and listen(): once a hook of the batch   *)
(* has raised one and listen() is out of the dispatch, listen() has raised *)
(* that signal.                                                            *)
(***************************************************************************)
C9_FatalSignalPropagates ==
  /\ \A i \in 1..Len(ErrorCalls) :
       "exc" \in DOMAIN ErrorCalls[i].args => ErrorCalls[i].args.exc # CancelledError
  /\ (/\ meta_hooks["error"] # <<>>
      /\ pc # "dispatch"
      /\ \E i \in 1..Len(tasks) : tasks[i].st = "cancelled")
       => (pc = "raised" /\ exc = CancelledError)

(***************************************************************************)
(* C10: with a failing ready hook and error hooks that all fail, the       *)
(* routing of the failure recurses until the recursion limit: listen()     *)
(* ends by raising a recursion failure.                                    *)
(***************************************************************************)
AllFail(hs) == hs # <<>> /\ \A i \in 1..Len(hs) : hs[i] = "raise"

C10_SelfLoopRecursionError ==
  [][(LeavesFailed("ready") /\ AllFail(meta_hooks["error"]))
       => (pc' = "raised" /\ exc'.type = "RecursionError")]_vars

(***************************************************************************)
(* C11: in a listen() every ready hook registered when listen() dispatches *)
(* them is invoked once, and only once the connection is set up (a failed  *)
(* connection invokes none); all of them have completed when the first     *)
(* envelope is pulled, and when the stream ends without an envelope.       *)
(***************************************************************************)
HooksOf(ts) == [i \in 1..Len(ts) |-> ts[i].hook]
AllDone(ts) == \A i \in 1..Len(ts) : ts[i].st = "done"

C11_ReadyBeforeFirstEnvelope ==
  [][/\ (pc = "created" /\ pc' # "created")
          => IF exc' = ConnectError
               THEN tasks' = <<>> /\ reports' = <<>>
               ELSE /\ HooksOf(tasks') = meta_hooks["ready"]
                    /\ \A i \in 1..Len(tasks') : tasks'[i].st = "ready"
     /\ (nenv = 0 /\ pc # "created" /\ (nenv' = 1 \/ pc' = "returned"))
          => /\ AllDone(tasks)
             /\ Len(tasks) <= Len(meta_hooks["ready"])
             /\ HooksOf(tasks) = SubSeq(meta_hooks["ready"], 1, Len(tasks))
     /\ (nenv = 0 /\ pc # "created" /\ nenv' = 0)
          => HooksOf(tasks') = HooksOf(tasks)]_vars

\* the first envelope is being handled after two ready hooks, one of which
\* suspended, have run
C11_Witness ==
  /\ nenv = 1
  /\ Len(meta_hooks["ready"]) >= 2
  /\ \E i \in 1..Len(meta_hooks["ready"]) : meta_hooks["ready"][i] = "slow"
  /\ pc = "stream"

(***************************************************************************)
(* C12: envelopes are processed one at a time: a batch of hooks is         *)
(* launched, and the next envelope is pulled, only when every hook of the  *)
(* batch before has completed; a failure of one of them has by then left   *)
(* listen(), so that no later batch exists.                                *)
(***************************************************************************)
\* listen() starts a dispatch_hooks call
Launches ==
  /\ pc' = "dispatch"
  /\ (pc # "dispatch" \/ dkind' # dkind \/ nenv' # nenv)

C12_OneEnvelopeAtATime ==
  [][/\ (Launches \/ nenv' # nenv) => AllDone(tasks)
     /\ (pc \in {"dispatch", "raised"} /\ ~AllDone(tasks) /\ pc' # "raised")
          => (pc' = pc /\ nenv' = nenv /\ reports' = reports
              /\ HooksOf(tasks') = HooksOf(tasks))]_vars

\* the second envelope has its event hooks running, one of them suspended,
\* after its auth_issue hooks
C12_Witness ==
  /\ nenv = 2
  /\ pc = "dispatch"
  /\ dkind = "event"
  /\ Len(AuthCalls) = 1
  /\ AuthCalls[1].hs # <<>>
  /\ \E i \in 1..Len(tasks) : tasks[i].st = "suspended"

(***************************************************************************)
(* C13: an envelope whose data is the empty object is dropped silently,    *)
(* whatever the token and the registered hooks: handling it launches no    *)
(* hook and makes no dispatch_hooks call, listen() does not raise and goes *)
(* back to the stream, and the token and the hook lists, which are all     *)
(* that the handling of a later envelope reads, are left as they were.     *)
(***************************************************************************)
C13_EmptyEnvelopeDropped ==
  [][(nenv' # nenv /\ DOMAIN event_data' = {})
       => /\ pc' = "stream"
          /\ tasks' = <<>>
          /\ reports' = <<>>
          /\ exc' = NoExc
          /\ UNCHANGED regVars]_vars

\* an empty envelope has been handled by a client with a token, an auth_issue
\* hook and an error hook
C13_Witness ==
  /\ nenv >= 1
  /\ DOMAIN event_data = {}
  /\ pc = "stream"
  /\ ~Falsy(token)
  /\ meta_hooks["auth_issue"] # <<>>
  /\ meta_hooks["error"] # <<>>

(***************************************************************************)
(* C14: two envelopes that differ only in the letter case of their header  *)
(* keys are handled identically, whatever the token: whenever listen()     *)
(* waits for an envelope, the payload, the auth outcome and issue, the     *)
(* error raised or reported and the hooks dispatched are the same for the  *)
(* lower-case spelling and for GitHub's.                                   *)
(***************************************************************************)
C14_HeaderCaseIrrelevant ==
  pc = "stream" =>
    \A ev \in EventNames \cup {None}, sig \in Signatures, body \in Bodies \cup {None} :
      /\ prepare_event_data(MkEnvelope(TRUE, ev, sig, body))
           = prepare_event_data(MkEnvelope(FALSE, ev, sig, body))
      /\ handle_event(MkEnvelope(TRUE, ev, sig, body))
           = handle_event(MkEnvelope(FALSE, ev, sig, body))

\* a signed delivery with the header keys as GitHub spells them is handed to
\* the event hooks of a client with a token
C14_Witness ==
  /\ nenv >= 1
  /\ ~Falsy(token)
  /\ event_data
       = prepare_event_data(MkEnvelope(TRUE, "star", sign(token, "created"), "created"))
  /\ DOMAIN event_data = {EVENT_HEADER, SIG_HEADER, "body"}
  /\ pc = "dispatch"
  /\ dkind = "event"

(***************************************************************************)
(* C15: every invalid registration (an event name outside the valid event  *)
(* names, an unknown internal event name, the bare internal namespace as a *)
(* decorator) fails at the call with a setup error: the call raises it,    *)
(* listen() is not affected, every hook list is unchanged, and no list is  *)
(* ever made for an invalid name.                                          *)
(***************************************************************************)
C15_InvalidRegistrationFails ==
  [][/\ rejected' # rejected
          => /\ rejected'.exc.type = "MonalistenSetupError"
             /\ UNCHANGED <<hooks, meta_hooks, paths, pc, exc>>
     /\ DOMAIN hooks' \subseteq VALID_EVENT_NAMES \cup {"*"}
     /\ DOMAIN meta_hooks' \subseteq VALID_META_EVENT_NAMES]_vars

(***************************************************************************)
(* C16: in the reconnect loop, a connection request made after a transport *)
(* read error carries a Last-Event-ID header equal to the id of the last   *)
(* event yielded, and the header is omitted only while no event id has     *)
(* been observed.                                                          *)
(***************************************************************************)
\* an event with an id has been yielded
IdObserved == \E i \in 1..Len(yielded) : yielded[i].id # ""

C16_LastEventIdResent ==
  [][(nconn' # nconn /\ attempt > 0)
       => /\ "Last-Event-ID" \in DOMAIN headers'
               => headers'["Last-Event-ID"] = yielded[Len(yielded)].id
          /\ "Last-Event-ID" \notin DOMAIN headers' => ~IdObserved]_vars

(***************************************************************************)
(* C17: a transport read error that occurs while listen() is streaming is  *)
(* handled by the reconnect loop and never surfaces to the caller of       *)
(* listen(): listen() is never left by a read error.                       *)
(***************************************************************************)
C17_ReadErrorNeverSurfaces == pc = "raised" => exc # ReadError

(***************************************************************************)
(* C18: if the source closes the stream cleanly after finitely many        *)
(* envelopes and every invoked hook completes without failing, listen()    *)
(* eventually returns normally.  A preprocessing error that leaves         *)
(* listen() because no error hook is registered is not counted against     *)
(* the claim.                                                              *)
(***************************************************************************)
HookFailed == \E i \in 1..Len(tasks) : tasks[i].st \in {"failed", "cancelled"}

SurfacedPreprocessingError ==
  /\ pc = "raised"
  /\ exc \in {MonalistenError(MsgNoHeader), MonalistenError(MsgNoBody),
               MonalistenError(MsgNoParse)}
  /\ meta_hooks["error"] = <<>>

C18_CleanCloseReturns ==
  <>(pc = "returned" \/ HookFailed \/ SurfacedPreprocessingError)

(***************************************************************************)
(* C19: the authentication check runs after the presence checks: with a    *)
(* token configured, a non-empty envelope that lacks the event header or   *)
(* the body and carries no valid signature is reported as the              *)
(* preprocessing error of what it lacks, and no auth issue is reported.    *)
(***************************************************************************)
LacksRequiredField ==
  Falsy(Get(event_data, EVENT_HEADER)) \/ Falsy(Get(event_data, "body"))

C19_PresenceChecksBeforeAuth ==
  (Handled /\ ~Falsy(token) /\ ~SigVerifies /\ LacksRequiredField)
    => /\ AuthCalls = <<>>
       /\ \/ Len(ErrorCalls) = 1 /\ ErrorCalls[1].args.message = MalformedMsg
          \/ ErrorCalls = <<>> /\ pc = "raised" /\ exc.msg = MalformedMsg

(***************************************************************************)
(* C20: authenticating a non-empty envelope ends in pass or fail and never *)
(* in a failure of its own: whatever the token, the signature and the      *)
(* body, when no auth_issue hook fails the authenticator has returned a    *)
(* boolean and no exception of the auth step has left listen().            *)
(***************************************************************************)
C20_AuthNeverFailsItself ==
  (Handled /\ NoHookFailed)
    => (auth \in {"pass", "fail"} /\ exc # KeyError)

(***************************************************************************)
(* C21: in the reconnect loop last_event_id and retry_delay change only    *)
(* when the incoming event carries the field: an event without an id       *)
(* leaves last_event_id as it was, an event without a retry hint leaves    *)
(* retry_delay as it was.                                                  *)
(***************************************************************************)
\* the loop takes an event from the stream
TakesEvent == Len(yielded') = Len(yielded) + 1

\* the same recorded id: None and "" both stand for no id
SameId(a, b) == a = b \/ (Falsy(a) /\ Falsy(b))

C21_UpdatedOnlyWhenPresent ==
  [][TakesEvent
       => LET sse == yielded'[Len(yielded')]
          IN /\ sse.id = "" => SameId(last_event_id', last_event_id)
             /\ "retry" \notin DOMAIN sse => retry_delay' = retry_delay]_vars

(* C22: in the reconnect loop only a transport read error is retried. Any
   other failure of the connection leaves the generator at once: the step that
   raises it sleeps on nothing and opens no connection, and nothing follows
   it. A read error never leaves the generator: whatever the attempt number,
   it is slept on and the sleep is followed by the next attempt. *)
C22_OnlyReadErrorsRetried ==
  [][/\ sse_exc' # ReadError
     /\ (sse_pc' = "raised" /\ sse_pc # "raised")
          => /\ sse_pc = "connected"
             /\ sse_exc' # NoExc
             /\ slept' = slept
             /\ nconn' = nconn
             /\ attempt' = attempt
     /\ sse_pc = "raised"
          => /\ sse_pc' = "raised"
             /\ slept' = slept
             /\ nconn' = nconn
     /\ sse_pc' = "sleeping"
          => /\ sse_pc = "connected"
             /\ Len(slept') = Len(slept) + 1
             /\ sse_exc' = NoExc
             /\ (ENABLED NextAttempt)'
     /\ sse_pc = "sleeping"
          => /\ sse_pc' = "start"
             /\ attempt' = attempt + 1
             /\ slept' = slept
             /\ (nconn < MaxConnects => (ENABLED Connect)')]_vars

\* two read errors were retried, then another failure left the generator
C22_Witness ==
  /\ sse_pc = "raised"
  /\ sse_exc = ConnectError
  /\ Len(slept) = 2
  /\ attempt = 2
  /\ nconn = 3

(* C23: the sleep made after the connection attempt numbered n is retry_delay
   plus 2 ** (min(n, 10) / e). Attempts are numbered from 0, one per
   connection, and events received do not reset the number. The numerator of
   the exponent is n up to 10 and 10 from there on, so the exponential term,
   which grows with its numerator, never decreases from one sleep to the next
   and is the same for every n >= 10. *)
\* the numerator of the exponent of the i-th sleep
Numerator(i) == slept[i].numerator

BackoffCapped ==
  /\ \A i \in 1..Len(slept) :
        /\ Numerator(i) = IF i - 1 <= ExponentCap THEN i - 1 ELSE ExponentCap
        /\ Numerator(i) <= ExponentCap
        /\ i - 1 >= ExponentCap => Numerator(i) = Numerator(ExponentCap + 1)
        /\ i > 1 => Numerator(i - 1) <= Numerator(i)
  /\ attempt = Len(slept) - (IF sse_pc = "sleeping" THEN 1 ELSE 0)
  /\ sse_pc = "connected" => attempt = nconn - 1

C23_BackoffCapped ==
  [][/\ BackoffCapped'
     /\ TakesEvent => attempt' = attempt
     /\ Len(slept') = Len(slept) + 1
          => slept'[Len(slept')].retry_delay = retry_delay]_vars

\* sleeps on both sides of the cap were made, with and without a delay the
\* server advised, on a stream that delivered events
C23_Witness ==
  /\ Len(slept) = MaxAttempts
  /\ Numerator(ExponentCap) < Numerator(ExponentCap + 1)
  /\ Numerator(ExponentCap + 1) = Numerator(ExponentCap + 2)
  /\ slept[1].retry_delay = 0
  /\ slept[MaxAttempts].retry_delay = 3
  /\ Len(yielded) >= 2

(* C24: hooks can be registered while listen() is streaming. A hook registered
   while envelope k is being dispatched is not invoked for envelope k: the
   registration changes neither the batch that is running nor what is still
   to be dispatched for envelope k. It is invoked for every later envelope:
   each dispatch that is launched runs exactly the hooks of the lists it
   reads. The first part is asked of well-formed envelopes whose running
   hooks do not fail. *)
Registered == hooks' # hooks \/ meta_hooks' # meta_hooks

\* the lists a dispatch reads
ListsRead(kind, ed) ==
  CASE kind = "event" -> hooks_get(Get(ed, EVENT_HEADER)) \o hooks_get("*")
    [] kind \in MetaEventNames -> meta_hooks[kind]
    [] OTHER -> <<>>

\* no hook of the batch that is running fails, so listen() goes on with the envelope
BatchCompletes == \A i \in 1..Len(tasks) : tasks[i].hook \in {"ok", "slow"}

\* the hooks still to be dispatched for the envelope once the batch is done
StillToDispatch ==
  IF dkind = "auth_issue" THEN auth_done(event_data, reports, auth).hs ELSE <<>>

LaunchedFromLists == Launches => HooksOf(tasks') = ListsRead(dkind', event_data')

C24_NotInvokedForSameEnvelope ==
  [][/\ (pc = "dispatch" /\ nenv >= 1 /\ ~Malformed /\ BatchCompletes /\ Registered)
          => /\ tasks' = tasks
             /\ StillToDispatch' = StillToDispatch
     /\ LaunchedFromLists]_vars

(* C24, amended: a hook registered while a dispatch is running is not invoked
   by that dispatch, and the event or error dispatch of an envelope is the
   last dispatch of that envelope; each dispatch that is launched runs
   exactly the hooks of the lists it reads at that moment, so the hook is
   invoked by every later dispatch that reads its list. *)
C24_NotInvokedByRunningDispatch ==
  [][/\ (pc = "dispatch" /\ Registered) => tasks' = tasks
     /\ (pc = "dispatch" /\ dkind \in {"event", "error"} /\ pc' = "dispatch")
          => /\ nenv' = nenv
             /\ dkind' = dkind
             /\ HooksOf(tasks') = HooksOf(tasks)
     /\ LaunchedFromLists]_vars

\* the event hooks of an envelope that raised the UNEXPECTED issue are running, and
\* a hook registered on "*" since they were launched is not among them
C24_Witness ==
  /\ pc = "dispatch"
  /\ dkind = "event"
  /\ nenv = 1
  /\ auth = "pass"
  /\ IssueKinds = <<UNEXPECTED>>
  /\ Len(tasks) = 1
  /\ Len(hooks_get("*")) = 2

(* C25: hook lists are append-only and independent. Every step leaves each
   list as it was or longer by one entry at its end, with the earlier entries
   as they were; a step lengthens at most one list, and the step that does is
   a registration, which leaves listen() where it is. No step of listen() or
   of a dispatch (lookup, wildcard matching, error routing) changes a list. *)
\* new is old, or old with one entry appended
AppendedOrSame(old, new) ==
  \/ new = old
  \/ Len(new) = Len(old) + 1 /\ SubSeq(new, 1, Len(old)) = old

\* the lists a step has changed
ChangedLists ==
  {<<"hooks", t>> : t \in {x \in DOMAIN hooks' : x \notin DOMAIN hooks \/ hooks'[x] # hooks[x]}}
    \cup {<<"meta_hooks", m>> : m \in {x \in MetaEventNames : meta_hooks'[x] # meta_hooks[x]}}
    \cup {<<"paths", a>> : a \in {x \in PathNames : paths'[x] # paths[x]}}

C25_ListsAppendOnly ==
  [][/\ DOMAIN hooks \subseteq DOMAIN hooks'
     /\ \A t \in DOMAIN hooks' :
          AppendedOrSame(IF t \in DOMAIN hooks THEN hooks[t] ELSE <<>>, hooks'[t])
     /\ \A m \in MetaEventNames : AppendedOrSame(meta_hooks[m], meta_hooks'[m])
     /\ \A a \in PathNames : AppendedOrSame(paths[a], paths'[a])
     /\ Cardinality(ChangedLists) <= 1
     /\ ChangedLists # {} => listenVars' = listenVars /\ nregs' = nregs + 1
     /\ listenVars' # listenVars => ChangedLists = {}]_vars

\* a second, different hook was registered on "*" while the event hooks of an
\* envelope were running
C25_Witness ==
  /\ pc = "dispatch"
  /\ dkind = "event"
  /\ HooksOf(tasks) = <<"ok">>
  /\ hooks_get("*") = <<"ok", "slow">>
  /\ hooks_get("star") = <<>>

(* C26: the dispatch of an auth issue is awaited before the authenticator
   returns. The envelope that raises an issue launches every auth_issue hook
   when it is pulled; listen() leaves that dispatch for the event (or error)
   hooks of the same envelope, or for the stream, only when every auth_issue
   hook is done; and an envelope is pulled only from the stream. *)
\* the issue of the envelope went to at least one auth_issue hook
ReportedToHooks(r) ==
  /\ SelectSeq(r, IsAuthCall) # <<>>
  /\ SelectSeq(r, IsAuthCall)[1].hs # <<>>

InAuthDispatch == pc = "dispatch" /\ dkind = "auth_issue"

C26_AuthIssueAwaited ==
  [][/\ (nenv' # nenv /\ ReportedToHooks(reports'))
          => /\ pc' = "dispatch"
             /\ dkind' = "auth_issue"
             /\ HooksOf(tasks') = meta_hooks["auth_issue"]
     /\ (Launches /\ dkind' \in {"event", "error"} /\ ReportedToHooks(reports'))
          => /\ InAuthDispatch
             /\ nenv' = nenv
             /\ AllDone(tasks)
     /\ (InAuthDispatch /\ pc' = "stream") => AllDone(tasks) /\ nenv' = nenv
     /\ nenv' # nenv => pc = "stream"]_vars

\* the event hooks of an envelope run after the slow auth_issue hook that was
\* told of its UNEXPECTED signature
C26_Witness ==
  /\ pc = "dispatch"
  /\ dkind = "event"
  /\ IssueKinds = <<UNEXPECTED>>
  /\ AuthCalls[1].hs = <<"slow">>
  /\ Len(tasks) = 1

(* C27: a client constructed with the token "" behaves like a client with no
   token. For every payload it handles the authenticator passes, with the
   result and the issue it gives for no token: the one issue UNEXPECTED when
   the payload has a signature key, whatever its value, and no issue
   otherwise; MISSING and MISMATCH are never reported. *)
C27_EmptyTokenIsNoToken ==
  (Handled /\ token = "")
    => /\ auth = "pass"
       /\ passes_auth(token, event_data) = passes_auth(None, event_data)
       /\ IssueKinds = IF SigAbsent THEN <<>> ELSE <<UNEXPECTED>>
       /\ \A i \in 1..Len(IssueKinds) : IssueKinds[i] \notin {MISSING, MISMATCH}

\* the client with the token "" took a delivery signed with the key "foobar",
\* reported it as UNEXPECTED and runs its event hooks
C27_Witness ==
  /\ token = ""
  /\ pc = "dispatch"
  /\ dkind = "event"
  /\ Get(event_data, SIG_HEADER) = sign("foobar", "created")
  /\ IssueKinds = <<UNEXPECTED>>

====
